---------------------------- MODULE Spec2Model ----------------------------
(***************************************************************************)
(* A model of the SimSoviet asset pipeline scripts:                        *)
(*   scripts/sovietize_kenney.py   Stage 1, material swap and GLB export   *)
(*   scripts/render_sprites.py     Stage 2, building sprites and manifest  *)
(*   scripts/render_hex_tiles.py   Stage 3, seasonal hex tile sprites      *)
(* Each script is a batch run; the 3D host (import, render, file system)   *)
(* is the environment, whose answers are drawn from small sets.            *)
(***************************************************************************)
EXTENDS Integers, Sequences, FiniteSets, TLC

VARIABLES
    \* ---- auto_crop_png, called on one rendered PNG ----
    crop_pc,        \* "start" | "returned"
    png0,           \* the PNG file as the renderer wrote it
    png,            \* the PNG file at image_path now
    anchor_in,      \* <<anchor_x, anchor_y>> passed in
    crop_ret,       \* the returned (anchor_x, anchor_y, width, height)
    crop_saved,     \* whether the call created and saved a cropped image
    \* ---- Stage 2, run_sprite_pipeline ----
    pc2,            \* "start" | "loop" | "done" | "exited"
    argv2,          \* the command line after Blender's "--"
    args2,          \* parse_args()
    stage1_manifest,\* public/models/soviet/manifest.json: whether it exists, its "assets"
    idx2,           \* position in sorted(assets.items())
    results2,       \* results: success, failed, skipped
    sprite_data2,   \* sprite_data
    sprite_manifest,\* sprites/soviet/manifest.json: whether it exists, the dumps made,
                    \* its "sprites" and "roles"
    exit2,          \* the status of sys.exit, or NoExit
    host2,          \* what the 3D host was asked to do: clears, imports, cameras,
                    \* renders (the raw PNG and anchor), the sprite files, the calls
                    \* and those of them that raised
    \* ---- Stage 3, run_hex_tile_pipeline ----
    pc3,            \* "start" | "loop" | "done" | "exited" | "raised"
    argv3,          \* the command line after Blender's "--"
    args3,          \* parse_args()
    kit3,           \* HEX_KIT_DIR.exists()
    seasons3,       \* seasons
    tiles3,         \* tiles_to_render
    si3, ti3,       \* positions in seasons and in tiles_to_render
    results3,       \* results: counts of success, failed, skipped
    season_sprites3,\* season_sprites of the season in progress
    sprite_data3,   \* sprite_data: season -> tile -> metadata
    tile_manifest,  \* tiles/manifest.json: whether it exists, the dumps made, "seasons"
    exit3,          \* the status of sys.exit, or NoExit
    host3,          \* what the 3D host was asked to do: colormaps, calls, cameras,
                    \* the PNG paths written, the mesh count of the last import,
                    \* whether the last call raised
    \* ---- Stage 1, sovietize_model called on one model ----
    sov_pc,         \* "start" | "returned"
    sov_name,       \* soviet_name
    sov_source,     \* source_glb.exists()
    imported_scene, \* the scene bpy.ops.import_scene.gltf gives
    scene1,         \* the scene after the call
    sov_out,        \* the return value, whether it imported, whether it exported
    \* ---- Stage 1, run_pipeline ----
    pc1,            \* "buildings" | "suburban" | "done" | "raised"
    tables1,        \* the entries of the two manifests the run goes through
    idx1,           \* position in the table of the loop in progress
    results1,       \* results: success, failed, skipped
    manifest_data1, \* manifest_data
    asset_manifest, \* models/soviet/manifest.json: the dumps made, "assets", "roles"
    host1           \* the calls of sovietize_model, the imports and exports made

cropVars == <<crop_pc, png0, png, anchor_in, crop_ret, crop_saved>>
s2Vars == <<pc2, argv2, args2, stage1_manifest, idx2, results2, sprite_data2,
            sprite_manifest, exit2, host2>>

s3Vars == <<pc3, argv3, args3, kit3, seasons3, tiles3, si3, ti3, results3,
            season_sprites3, sprite_data3, tile_manifest, exit3, host3>>

swapVars == <<sov_pc, sov_name, sov_source, imported_scene, scene1, sov_out>>

s1Vars == <<pc1, tables1, idx1, results1, manifest_data1, asset_manifest, host1>>

vars == <<cropVars, s2Vars, s3Vars, swapVars, s1Vars>>

NoValue == "None"

\* The exit status of a run that has not called sys.exit.
NoExit == -1

Max(a, b) == IF a >= b THEN a ELSE b
Min(a, b) == IF a <= b THEN a ELSE b

-----------------------------------------------------------------------------
(***************************************************************************)
(* Images.  A PNG file is [w, h, px] with px[y][x] the pixel in row y      *)
(* counted from the TOP.  A pixel is [a, c]: its 8-bit alpha and a colour  *)
(* tag standing for its RGB value.                                         *)
(***************************************************************************)

MaxW == 5
MaxH == 4

Transparent == [a |-> 0, c |-> 0]

\* Alpha levels of the modelled pixels (8-bit): opaque, just above the crop
\* threshold, just below it.
Alpha == [opaque |-> 255, low |-> 3, faint |-> 2]

NoPos == <<-1, -1>>

Positions(w, h) == (0 .. h - 1) \X (0 .. w - 1)

MakePng(w, h, p1, p2, f) ==
    [w |-> w, h |-> h,
     px |-> [y \in 0 .. h - 1 |-> [x \in 0 .. w - 1 |->
               IF <<y, x>> = p1 THEN [a |-> Alpha.opaque, c |-> 1]
               ELSE IF <<y, x>> = p2 THEN [a |-> Alpha.low, c |-> 2]
               ELSE IF <<y, x>> = f THEN [a |-> Alpha.faint, c |-> 3]
               ELSE Transparent]]]

\* The renders the model draws from: up to two visible pixels anywhere and
\* an optional faint pixel in the top-left corner of the frame.
RenderedPngs ==
    UNION { { MakePng(w, h, p1, p2, f) :
                p1 \in Positions(w, h) \cup {NoPos},
                p2 \in Positions(w, h) \cup {NoPos},
                f \in {NoPos, <<0, 0>>} } :
            w \in 1 .. MaxW, h \in 1 .. MaxH }

\* img.pixels reshaped to (h, w, 4): rows bottom-to-top.
LoadPixels(file) ==
    [r \in 0 .. file.h - 1 |-> [c \in 0 .. file.w - 1 |-> file.px[file.h - 1 - r][c]]]

\* new_img.save(): a bottom-to-top buffer written as a PNG file.
SavePixels(buf, w, h) ==
    [w |-> w, h |-> h,
     px |-> [y \in 0 .. h - 1 |-> [x \in 0 .. w - 1 |-> buf[h - 1 - y][x]]]]

\* A faulty variant: any alpha above zero counts as visible.
AlphaVisibleMutant(p) == p.a > 0
\* alpha > 0.01 with alpha = a / 255
AlphaVisible(p) == p.a * 100 > 255

RowsMask(pixels, w, h) == [r \in 0 .. h - 1 |-> \E c \in 0 .. w - 1 : AlphaVisible(pixels[r][c])]
ColsMask(pixels, w, h) == [c \in 0 .. w - 1 |-> \E r \in 0 .. h - 1 : AlphaVisible(pixels[r][c])]

AnyMask(mask, n) == \E i \in 0 .. n - 1 : mask[i]

\* np.argmax of a boolean array: the first True index, 0 when there is none.
Argmax(mask, n) ==
    IF AnyMask(mask, n)
    THEN CHOOSE i \in 0 .. n - 1 : mask[i] /\ \A j \in 0 .. i - 1 : ~mask[j]
    ELSE 0

Reversed(mask, n) == [i \in 0 .. n - 1 |-> mask[n - 1 - i]]

pad == 2

\* A faulty variant: the padding moves the low edge inward.
PadLowMutant(v) == Max(0, v + pad)
PadLow(v) == Max(0, v - pad)
PadHigh(v, n) == Min(n - 1, v + pad)

\* The content bounding box with its padding, in bottom-to-top rows.
CropBox(pixels, w, h) ==
    LET rows_mask == RowsMask(pixels, w, h)
        cols_mask == ColsMask(pixels, w, h)
    IN  [rmin |-> PadLow(Argmax(rows_mask, h)),
         rmax |-> PadHigh(h - 1 - Argmax(Reversed(rows_mask, h), h), h),
         cmin |-> PadLow(Argmax(cols_mask, w)),
         cmax |-> PadHigh(w - 1 - Argmax(Reversed(cols_mask, w), w), w)]

\* A faulty variant: the bottom-up rmin used as a top-down offset.
NewAnchorYMutant(h, anchor_y, rmin, crop_h) == anchor_y - rmin
NewAnchorY(h, anchor_y, rmin, crop_h) ==
    LET anchor_blender_row == (h - 1) - anchor_y
        new_blender_row == anchor_blender_row - rmin
    IN  (crop_h - 1) - new_blender_row

NewAnchorX(anchor_x, cmin) == anchor_x - cmin

\* auto_crop_png: the returned tuple and the file left at image_path.
AutoCrop(file, anchor_x, anchor_y) ==
    LET w == file.w
        h == file.h
        pixels == LoadPixels(file)
    IN  IF ~AnyMask(RowsMask(pixels, w, h), h)
        THEN [ret |-> <<anchor_x, anchor_y, w, h>>, file |-> file, saved |-> FALSE]
        ELSE LET box == CropBox(pixels, w, h)
                 crop_h == box.rmax - box.rmin + 1
                 crop_w == box.cmax - box.cmin + 1
                 cropped == [r \in 0 .. crop_h - 1 |-> [c \in 0 .. crop_w - 1 |->
                               pixels[box.rmin + r][box.cmin + c]]]
             IN  [ret |-> <<NewAnchorX(anchor_x, box.cmin),
                            NewAnchorY(h, anchor_y, box.rmin, crop_h),
                            crop_w, crop_h>>,
                  file |-> SavePixels(cropped, crop_w, crop_h),
                  saved |-> TRUE]

\* Anchors tried on a file: on its first opaque pixel when it has one, in two
\* corners of the frame, and outside the frame.
OpaqueAt(file) ==
    {<<x, y>> \in (0 .. file.w - 1) \X (0 .. file.h - 1) : file.px[y][x].a = Alpha.opaque}

Anchors(file) ==
    OpaqueAt(file) \cup {<<0, 0>>, <<file.w - 1, 0>>, <<-1, file.h>>}

CropInit ==
    /\ crop_pc = "start"
    /\ png0 \in RenderedPngs
    /\ png = png0
    /\ anchor_in = <<0, 0>>
    /\ crop_ret = <<0, 0, 0, 0>>
    /\ crop_saved = FALSE

CallAutoCrop ==
    /\ crop_pc = "start"
    /\ \E anchor \in Anchors(png) :
         LET out == AutoCrop(png, anchor[1], anchor[2])
         IN  /\ anchor_in' = anchor
             /\ crop_ret' = out.ret
             /\ png' = out.file
             /\ crop_saved' = out.saved
    /\ crop_pc' = "returned"
    /\ UNCHANGED png0

CropIdle ==
    /\ crop_pc = "off"
    /\ png0 = MakePng(1, 1, NoPos, NoPos, NoPos)
    /\ png = png0
    /\ anchor_in = <<0, 0>>
    /\ crop_ret = <<0, 0, 0, 0>>
    /\ crop_saved = FALSE

-----------------------------------------------------------------------------
(***************************************************************************)
(* Python values shared by the scripts                                     *)
(***************************************************************************)

\* The truth value Python gives None and a string in "if x" / "x and ...".
Truthy(v) == v # NoValue /\ v # ""

\* str.lower() on the words the command lines of the model carry.
Lower(s) ==
    CASE s = "EEVEE" -> "eevee"
      [] s = "Winter" -> "winter"
      [] s = "MUD" -> "mud"
      [] OTHER -> s

-----------------------------------------------------------------------------
(***************************************************************************)
(* The tables of sovietize_kenney.py                                       *)
(*                                                                         *)
(* The two manifests are the tables of the script, entry for entry:        *)
(* <<source filename, soviet_name, texture profile, role>>.                *)
(***************************************************************************)

BUILDING_MANIFEST ==
    << <<"building-sample-tower-a.glb", "apartment-tower-a", "CONCRETE_RESIDENTIAL", "housing">>,
       <<"building-sample-tower-b.glb", "apartment-tower-b", "CONCRETE_RESIDENTIAL", "housing">>,
       <<"building-sample-tower-c.glb", "apartment-tower-c", "CONCRETE_INSTITUTIONAL", "housing">>,
       <<"building-sample-tower-d.glb", "apartment-tower-d", "CONCRETE_RESIDENTIAL", "housing">>,
       <<"building-sample-house-a.glb", "workers-house-a", "CONCRETE_RESIDENTIAL", "housing">>,
       <<"building-sample-house-b.glb", "workers-house-b", "CONCRETE_RESIDENTIAL", "housing">>,
       <<"building-sample-house-c.glb", "workers-house-c", "CONCRETE_INSTITUTIONAL", "housing">>,
       <<"building-block.glb", "concrete-block", "CONCRETE_ROUGH", "utility">>,
       <<"building-window.glb", "wall-window", "CONCRETE_RESIDENTIAL", "modular">>,
       <<"building-window-sill.glb", "wall-window-sill", "CONCRETE_RESIDENTIAL", "modular">>,
       <<"building-window-wide.glb", "wall-window-wide", "CONCRETE_RESIDENTIAL", "modular">>,
       <<"building-window-wide-sill.glb", "wall-window-wide-sill", "CONCRETE_RESIDENTIAL", "modular">>,
       <<"building-window-balcony.glb", "wall-balcony", "CONCRETE_RESIDENTIAL", "modular">>,
       <<"building-windows.glb", "wall-windows", "CONCRETE_RESIDENTIAL", "modular">>,
       <<"building-windows-sills.glb", "wall-windows-sills", "CONCRETE_RESIDENTIAL", "modular">>,
       <<"building-door.glb", "wall-door", "CONCRETE_RESIDENTIAL", "modular">>,
       <<"building-door-window.glb", "wall-door-window", "CONCRETE_RESIDENTIAL", "modular">>,
       <<"building-corner.glb", "wall-corner", "CONCRETE_RESIDENTIAL", "modular">>,
       <<"building-corner-window.glb", "wall-corner-window", "CONCRETE_RESIDENTIAL", "modular">>,
       <<"building-corner-bottom.glb", "wall-corner-bottom", "CONCRETE_RESIDENTIAL", "modular">>,
       <<"building-corner-top.glb", "wall-corner-top", "CONCRETE_RESIDENTIAL", "modular">>,
       <<"building-steps-wide.glb", "steps-wide", "CONCRETE_INSTITUTIONAL", "modular">>,
       <<"building-steps-narrow.glb", "steps-narrow", "CONCRETE_INSTITUTIONAL", "modular">>,
       <<"roof-flat-center.glb", "roof-flat", "CONCRETE_ROUGH", "modular">>,
       <<"roof-flat-border-corner.glb", "roof-border-corner", "CONCRETE_ROUGH", "modular">>,
       <<"roof-flat-border-straight.glb", "roof-border-straight", "CONCRETE_ROUGH", "modular">>,
       <<"roof-flat-border-side.glb", "roof-border-side", "CONCRETE_ROUGH", "modular">>,
       <<"roof-flat-top.glb", "roof-top", "CONCRETE_ROUGH", "modular">>,
       <<"roof-flat-detail-a.glb", "roof-vent-a", "CONCRETE_ROUGH", "modular">>,
       <<"roof-flat-detail-b.glb", "roof-vent-b", "CONCRETE_ROUGH", "modular">>,
       <<"roof-flat-detail-c.glb", "roof-antenna", "CONCRETE_ROUGH", "modular">>,
       <<"roof-flat-detail-d.glb", "roof-pipe", "CONCRETE_ROUGH", "modular">> >>

SUBURBAN_MANIFEST ==
    << <<"building-type-a.glb", "government-hq", "CONCRETE_GOVERNMENT", "government">>,
       <<"building-type-b.glb", "ministry-office", "CONCRETE_GOVERNMENT", "government">>,
       <<"building-type-c.glb", "factory-office", "CONCRETE_INDUSTRIAL", "industry">>,
       <<"building-type-d.glb", "workers-club", "CONCRETE_INSTITUTIONAL", "culture">>,
       <<"building-type-e.glb", "polyclinic", "CONCRETE_INSTITUTIONAL", "services">>,
       <<"building-type-f.glb", "school", "CONCRETE_INSTITUTIONAL", "services">>,
       <<"building-type-g.glb", "power-station", "CONCRETE_INDUSTRIAL", "power">>,
       <<"building-type-h.glb", "warehouse", "CONCRETE_INDUSTRIAL", "industry">>,
       <<"building-type-i.glb", "guard-post", "CONCRETE_ROUGH", "military">>,
       <<"building-type-j.glb", "barracks", "CONCRETE_ROUGH", "military">>,
       <<"building-type-k.glb", "collective-farm-hq", "CONCRETE_ROUGH", "agriculture">>,
       <<"building-type-l.glb", "bread-factory", "CONCRETE_INDUSTRIAL", "industry">>,
       <<"building-type-m.glb", "radio-station", "CONCRETE_GOVERNMENT", "propaganda">>,
       <<"building-type-n.glb", "kgb-office", "CONCRETE_GOVERNMENT", "government">>,
       <<"building-type-o.glb", "post-office", "CONCRETE_INSTITUTIONAL", "services">>,
       <<"building-type-p.glb", "hospital", "CONCRETE_INSTITUTIONAL", "services">>,
       <<"building-type-q.glb", "train-station", "CONCRETE_INDUSTRIAL", "transport">>,
       <<"building-type-r.glb", "fire-station", "CONCRETE_INDUSTRIAL", "services">>,
       <<"building-type-s.glb", "vodka-distillery", "CONCRETE_INDUSTRIAL", "industry">>,
       <<"building-type-t.glb", "cultural-palace", "CONCRETE_GOVERNMENT", "culture">>,
       <<"building-type-u.glb", "gulag-admin", "CONCRETE_ROUGH", "military">>,
       <<"fence.glb", "fence", "CONCRETE_ROUGH", "environment">>,
       <<"fence-low.glb", "fence-low", "CONCRETE_ROUGH", "environment">> >>

\* Every entry of the two tables.
AllEntries == BUILDING_MANIFEST \o SUBURBAN_MANIFEST

\* The soviet names of the tables in the order sorted() gives them.
SortedSovietNames ==
    <<
       "apartment-tower-a", "apartment-tower-b", "apartment-tower-c",
       "apartment-tower-d", "barracks", "bread-factory", "collective-farm-hq",
       "concrete-block", "cultural-palace", "factory-office", "fence", "fence-low",
       "fire-station", "government-hq", "guard-post", "gulag-admin", "hospital",
       "kgb-office", "ministry-office", "polyclinic", "post-office", "power-station",
       "radio-station", "roof-antenna", "roof-border-corner", "roof-border-side",
       "roof-border-straight", "roof-flat", "roof-pipe", "roof-top", "roof-vent-a",
       "roof-vent-b", "school", "steps-narrow", "steps-wide", "train-station",
       "vodka-distillery", "wall-balcony", "wall-corner", "wall-corner-bottom",
       "wall-corner-top", "wall-corner-window", "wall-door", "wall-door-window",
       "wall-window", "wall-window-sill", "wall-window-wide", "wall-window-wide-sill",
       "wall-windows", "wall-windows-sills", "warehouse", "workers-club",
       "workers-house-a", "workers-house-b", "workers-house-c" >>

-----------------------------------------------------------------------------
(***************************************************************************)
(* Stage 2: render_sprites.py                                              *)
(***************************************************************************)

MaxAssets == 2

\* Asset names in the order sorted() gives them.
NameOrder == <<"apartment-tower-a", "power-station", "wall-window", "warehouse">>
AssetNames == {NameOrder[i] : i \in 1 .. Min(MaxAssets, Len(NameOrder))}

SKIP_ROLES == {"modular"}

\* The original Kenney file of an asset: the filename its table entry names.
SourceOf(name) ==
    LET i == CHOOSE j \in 1 .. Len(AllEntries) : AllEntries[j][2] = name
    IN  AllEntries[i][1]

\* Path(source_filename).stem, on the filenames of the tables.
PathStem(filename) ==
    CASE filename = "building-sample-tower-a.glb" -> "building-sample-tower-a"
      [] filename = "building-sample-tower-b.glb" -> "building-sample-tower-b"
      [] filename = "building-sample-tower-c.glb" -> "building-sample-tower-c"
      [] filename = "building-sample-tower-d.glb" -> "building-sample-tower-d"
      [] filename = "building-sample-house-a.glb" -> "building-sample-house-a"
      [] filename = "building-sample-house-b.glb" -> "building-sample-house-b"
      [] filename = "building-sample-house-c.glb" -> "building-sample-house-c"
      [] filename = "building-block.glb" -> "building-block"
      [] filename = "building-window.glb" -> "building-window"
      [] filename = "building-window-sill.glb" -> "building-window-sill"
      [] filename = "building-window-wide.glb" -> "building-window-wide"
      [] filename = "building-window-wide-sill.glb" -> "building-window-wide-sill"
      [] filename = "building-window-balcony.glb" -> "building-window-balcony"
      [] filename = "building-windows.glb" -> "building-windows"
      [] filename = "building-windows-sills.glb" -> "building-windows-sills"
      [] filename = "building-door.glb" -> "building-door"
      [] filename = "building-door-window.glb" -> "building-door-window"
      [] filename = "building-corner.glb" -> "building-corner"
      [] filename = "building-corner-window.glb" -> "building-corner-window"
      [] filename = "building-corner-bottom.glb" -> "building-corner-bottom"
      [] filename = "building-corner-top.glb" -> "building-corner-top"
      [] filename = "building-steps-wide.glb" -> "building-steps-wide"
      [] filename = "building-steps-narrow.glb" -> "building-steps-narrow"
      [] filename = "roof-flat-center.glb" -> "roof-flat-center"
      [] filename = "roof-flat-border-corner.glb" -> "roof-flat-border-corner"
      [] filename = "roof-flat-border-straight.glb" -> "roof-flat-border-straight"
      [] filename = "roof-flat-border-side.glb" -> "roof-flat-border-side"
      [] filename = "roof-flat-top.glb" -> "roof-flat-top"
      [] filename = "roof-flat-detail-a.glb" -> "roof-flat-detail-a"
      [] filename = "roof-flat-detail-b.glb" -> "roof-flat-detail-b"
      [] filename = "roof-flat-detail-c.glb" -> "roof-flat-detail-c"
      [] filename = "roof-flat-detail-d.glb" -> "roof-flat-detail-d"
      [] filename = "building-type-a.glb" -> "building-type-a"
      [] filename = "building-type-b.glb" -> "building-type-b"
      [] filename = "building-type-c.glb" -> "building-type-c"
      [] filename = "building-type-d.glb" -> "building-type-d"
      [] filename = "building-type-e.glb" -> "building-type-e"
      [] filename = "building-type-f.glb" -> "building-type-f"
      [] filename = "building-type-g.glb" -> "building-type-g"
      [] filename = "building-type-h.glb" -> "building-type-h"
      [] filename = "building-type-i.glb" -> "building-type-i"
      [] filename = "building-type-j.glb" -> "building-type-j"
      [] filename = "building-type-k.glb" -> "building-type-k"
      [] filename = "building-type-l.glb" -> "building-type-l"
      [] filename = "building-type-m.glb" -> "building-type-m"
      [] filename = "building-type-n.glb" -> "building-type-n"
      [] filename = "building-type-o.glb" -> "building-type-o"
      [] filename = "building-type-p.glb" -> "building-type-p"
      [] filename = "building-type-q.glb" -> "building-type-q"
      [] filename = "building-type-r.glb" -> "building-type-r"
      [] filename = "building-type-s.glb" -> "building-type-s"
      [] filename = "building-type-t.glb" -> "building-type-t"
      [] filename = "building-type-u.glb" -> "building-type-u"
      [] filename = "fence.glb" -> "fence"
      [] filename = "fence-low.glb" -> "fence-low"
      [] OTHER -> filename

\* One entry of the Stage 1 manifest's "assets".  "role" and "source" may be
\* missing from an entry (NoValue); "file" is always there.
AssetInfos(name) ==
    { [file |-> name, source |-> SourceOf(name), role |-> r] :
        r \in {"housing", "modular"} }
    \cup { [file |-> name, source |-> NoValue, role |-> NoValue] }

Stage1AssetMaps ==
    UNION { { f \in [S -> UNION {AssetInfos(n) : n \in S}] :
                \A n \in S : f[n] \in AssetInfos(n) } : S \in SUBSET AssetNames }

\* info.get(key, default)
Get(info, key, default) == IF info[key] = NoValue THEN default ELSE info[key]

\* sorted(assets.items()): the names of the manifest in sorted order.
SortedNames(assets) == SelectSeq(SortedSovietNames, LAMBDA n : n \in DOMAIN assets)

ParseStepOnly2(custom, i, args) == [args EXCEPT !.only = custom[i + 1]]

\* parse_args of render_sprites.py; custom is 1-indexed here.
RECURSIVE ParseFrom2(_, _, _)
ParseFrom2(custom, i, args) ==
    IF i > Len(custom) THEN args
    ELSE IF custom[i] = "--only" /\ i + 1 <= Len(custom)
         THEN ParseFrom2(custom, i + 2, ParseStepOnly2(custom, i, args))
    ELSE IF custom[i] = "--engine" /\ i + 1 <= Len(custom)
         THEN ParseFrom2(custom, i + 2, [args EXCEPT !.engine = Lower(custom[i + 1])])
    ELSE ParseFrom2(custom, i + 1, args)

ParseArgs2(custom) == ParseFrom2(custom, 1, [only |-> NoValue, engine |-> "cycles"])

\* Command lines of the model.
Argv2 ==
    {<<>>, <<"--only">>, <<"--engine", "EEVEE">>}
    \cup { <<"--only", x>> : x \in AssetNames \cup {"", "no-such-building"} }
    \cup { <<"--engine", "EEVEE", "--only", NameOrder[1]>> }

\* --- the 3D host's answers to one render_single_sprite call ---

\* Mesh objects an imported GLB may hold beside other objects: the asset's
\* own mesh, and a mesh left over from another model.  An object's name is
\* <<stem>> or <<stem, suffix>>.
OwnMesh(name) == [type |-> "MESH", name |-> <<PathStem(SourceOf(name))>>]
StaleMesh == [type |-> "MESH", name |-> <<"building-block">>]
EmptyObject == [type |-> "EMPTY", name |-> <<"root">>]
ImportedScenes(name) == SUBSET {OwnMesh(name), StaleMesh, EmptyObject}

\* What a render leaves: the PNG written, the anchor computed from the
\* camera, and the model's size.
RenderShots ==
    { [png |-> MakePng(5, 4, <<3, 3>>, NoPos, NoPos), anchor |-> <<3, 3>>, size |-> 1],
      [png |-> MakePng(3, 2, NoPos, NoPos, NoPos), anchor |-> <<1, 1>>, size |-> 2] }

HostAnswers(name) ==
    [raises : {"no", "import", "render"}, scene : ImportedScenes(name), shot : RenderShots]

\* obj.name.startswith(expected_stem)
StartsWith(objname, stem) ==
    Len(objname) >= Len(stem) /\ SubSeq(objname, 1, Len(stem)) = stem

\* filter_to_source_mesh: the objects of the scene that are left.
FilterToSourceMesh(scene, source_filename) ==
    LET expected_stem == <<PathStem(source_filename)>>
        to_delete == {obj \in scene : obj.type = "MESH" /\ ~StartsWith(obj.name, expected_stem)}
    IN  scene \ to_delete

MeshObjects(scene) == {obj \in scene : obj.type = "MESH"}

\* A faulty variant: the metadata of the uncropped render.
SpriteInfoMutant(out, shot) ==
    [width |-> out.ret[4], height |-> out.ret[3],
     anchor_x |-> out.ret[1], anchor_y |-> out.ret[2], model_size |-> shot.size]
SpriteInfo(out, shot) ==
    [width |-> out.ret[3], height |-> out.ret[4],
     anchor_x |-> out.ret[1], anchor_y |-> out.ret[2], model_size |-> shot.size]

NoInfo == [width |-> 0, height |-> 0, anchor_x |-> 0, anchor_y |-> 0, model_size |-> 0]

\* A faulty variant: metadata returned for a scene without a mesh object.
NoMeshReturnMutant(shot) ==
    [kind |-> "info", info |-> SpriteInfo(AutoCrop(shot.png, shot.anchor[1], shot.anchor[2]), shot)]
\* The value returned when the scene holds no mesh object.
NoMeshReturn(shot) == [kind |-> "None", info |-> NoInfo]

\* render_single_sprite: what it returns (or that it raised) and what it asked
\* of the host on the way.
RenderSingleSprite(source_filename, ans) ==
    LET scene == IF Truthy(source_filename)
                 THEN FilterToSourceMesh(ans.scene, source_filename)
                 ELSE ans.scene
        meshes == Cardinality(MeshObjects(scene))
        out == AutoCrop(ans.shot.png, ans.shot.anchor[1], ans.shot.anchor[2])
        base == [cleared |-> TRUE, imported |-> FALSE, meshes |-> -1, camera |-> FALSE,
                 rendered |-> FALSE,
                 raw |-> [png |-> ans.shot.png, anchor |-> ans.shot.anchor],
                 file |-> ans.shot.png,
                 ret |-> [kind |-> "raised", info |-> NoInfo]]
    IN  IF ans.raises = "import"
        THEN base
        ELSE IF meshes = 0
        THEN [base EXCEPT !.imported = TRUE, !.meshes = 0, !.ret = NoMeshReturn(ans.shot)]
        ELSE IF ans.raises = "render"
        THEN [base EXCEPT !.imported = TRUE, !.meshes = meshes, !.camera = TRUE]
        ELSE [base EXCEPT !.imported = TRUE, !.meshes = meshes, !.camera = TRUE,
                          !.rendered = TRUE, !.file = out.file,
                          !.ret = [kind |-> "info", info |-> SpriteInfo(out, ans.shot)]]

EmptyMap == [x \in {} |-> NoValue]

MapPut(m, k, v) == [x \in DOMAIN m \cup {k} |-> IF x = k THEN v ELSE m[x]]

NoHost2 ==
    [clears |-> 0, imports |-> <<>>, calls |-> <<>>, raised |-> {}, cameras |-> {},
     meshes |-> EmptyMap, renders |-> EmptyMap, files |-> EmptyMap]

\* The host after one render_single_sprite call for name with effects eff.
HostAfter(host, name, eff) ==
    [clears |-> host.clears + 1,
     calls |-> Append(host.calls, name),
     raised |-> IF eff.ret.kind = "raised" THEN host.raised \cup {name} ELSE host.raised,
     imports |-> IF eff.imported THEN Append(host.imports, name) ELSE host.imports,
     cameras |-> IF eff.camera THEN host.cameras \cup {name} ELSE host.cameras,
     meshes |-> IF eff.meshes >= 0 THEN MapPut(host.meshes, name, eff.meshes) ELSE host.meshes,
     renders |-> IF eff.rendered THEN MapPut(host.renders, name, eff.raw) ELSE host.renders,
     files |-> IF eff.rendered THEN MapPut(host.files, name, eff.file) ELSE host.files]

NoSpriteManifest == [exists |-> FALSE, dumps |-> 0, sprites |-> EmptyMap, roles |-> EmptyMap]

S2Init ==
    /\ pc2 = "start"
    /\ argv2 \in Argv2
    /\ args2 = [only |-> NoValue, engine |-> "cycles"]
    /\ stage1_manifest \in
         {[exists |-> FALSE, assets |-> EmptyMap]}
         \cup {[exists |-> TRUE, assets |-> a] : a \in Stage1AssetMaps}
    /\ idx2 = 0
    /\ results2 = [success |-> <<>>, failed |-> <<>>, skipped |-> <<>>]
    /\ sprite_data2 = EmptyMap
    /\ sprite_manifest \in {NoSpriteManifest, [NoSpriteManifest EXCEPT !.exists = TRUE]}
    /\ exit2 = NoExit
    /\ host2 = NoHost2

\* A faulty variant: the existence test dropped.
ManifestExistsMutant(m) == TRUE
\* MANIFEST_PATH.exists()
ManifestExists(m) == m.exists

\* run_sprite_pipeline up to the manifest check, when MANIFEST_PATH is absent.
S2NoManifest ==
    /\ pc2 = "start"
    /\ ~ManifestExists(stage1_manifest)
    /\ args2' = ParseArgs2(argv2)
    /\ exit2' = 1
    /\ pc2' = "exited"
    /\ UNCHANGED <<argv2, stage1_manifest, idx2, results2, sprite_data2, sprite_manifest, host2>>

\* ... and when it is there: json.load and the empty results.
S2LoadManifest ==
    /\ pc2 = "start"
    /\ ManifestExists(stage1_manifest)
    /\ args2' = ParseArgs2(argv2)
    /\ idx2' = 1
    /\ pc2' = "loop"
    /\ UNCHANGED <<argv2, stage1_manifest, results2, sprite_data2, sprite_manifest, exit2, host2>>

Assets2 == stage1_manifest.assets
InLoop2 == pc2 = "loop" /\ idx2 <= Len(SortedNames(Assets2))
Name2 == SortedNames(Assets2)[idx2]
Info2 == Assets2[Name2]
Role2 == Get(Info2, "role", "")

\* A faulty variant: no role is skipped.
IsSkippedRoleMutant(role) == FALSE
IsSkippedRole(role) == role \in SKIP_ROLES

NotTheOnlyOne(only, name) == Truthy(only) /\ name # only

\* One pass of the loop: a role in SKIP_ROLES.
S2SkipModular ==
    /\ InLoop2
    /\ IsSkippedRole(Role2)
    /\ results2' = [results2 EXCEPT !.skipped = Append(@, Name2)]
    /\ idx2' = idx2 + 1
    /\ UNCHANGED <<pc2, argv2, args2, stage1_manifest, sprite_data2, sprite_manifest, exit2, host2>>

\* One pass of the loop: --only names another asset.
S2SkipNotOnly ==
    /\ InLoop2
    /\ ~IsSkippedRole(Role2)
    /\ NotTheOnlyOne(args2.only, Name2)
    /\ idx2' = idx2 + 1
    /\ UNCHANGED <<pc2, argv2, args2, stage1_manifest, results2, sprite_data2,
                   sprite_manifest, exit2, host2>>

ToRender2 == InLoop2 /\ ~IsSkippedRole(Role2) /\ ~NotTheOnlyOne(args2.only, Name2)

\* One pass of the loop: the GLB of the asset is not on disk.
S2MissGlb ==
    /\ ToRender2
    /\ results2' = [results2 EXCEPT !.failed = Append(@, Name2)]
    /\ idx2' = idx2 + 1
    /\ UNCHANGED <<pc2, argv2, args2, stage1_manifest, sprite_data2, sprite_manifest, exit2, host2>>

\* {"sprite": ..., "role": role, **sprite_info}
SpriteEntry(name, role, sprite_info) ==
    [sprite |-> <<"sprites/soviet/", name, ".png">>, role |-> role,
     width |-> sprite_info.width, height |-> sprite_info.height,
     anchor_x |-> sprite_info.anchor_x, anchor_y |-> sprite_info.anchor_y,
     model_size |-> sprite_info.model_size]

\* One pass of the loop: render_single_sprite returned the sprite's metadata.
S2RenderOk ==
    /\ ToRender2
    /\ \E ans \in HostAnswers(Name2) :
         LET eff == RenderSingleSprite(Info2.source, ans)
         IN  /\ eff.ret.kind = "info"
             /\ host2' = HostAfter(host2, Name2, eff)
             /\ results2' = [results2 EXCEPT !.success = Append(@, Name2)]
             /\ sprite_data2' = MapPut(sprite_data2, Name2,
                                       SpriteEntry(Name2, Role2, eff.ret.info))
    /\ idx2' = idx2 + 1
    /\ UNCHANGED <<pc2, argv2, args2, stage1_manifest, sprite_manifest, exit2>>

\* One pass of the loop: render_single_sprite returned None.
S2RenderNone ==
    /\ ToRender2
    /\ \E ans \in HostAnswers(Name2) :
         LET eff == RenderSingleSprite(Info2.source, ans)
         IN  /\ eff.ret.kind = "None"
             /\ host2' = HostAfter(host2, Name2, eff)
    /\ results2' = [results2 EXCEPT !.failed = Append(@, Name2)]
    /\ idx2' = idx2 + 1
    /\ UNCHANGED <<pc2, argv2, args2, stage1_manifest, sprite_data2, sprite_manifest, exit2>>

\* A faulty variant: the exception leaves the loop and ends the run.
S2RenderRaisesMutant ==
    /\ ToRender2
    /\ \E ans \in HostAnswers(Name2) :
         LET eff == RenderSingleSprite(Info2.source, ans)
         IN  /\ eff.ret.kind = "raised"
             /\ host2' = HostAfter(host2, Name2, eff)
    /\ pc2' = "exited"
    /\ exit2' = 1
    /\ UNCHANGED <<argv2, args2, stage1_manifest, idx2, results2, sprite_data2, sprite_manifest>>

\* One pass of the loop: render_single_sprite raised.
S2RenderRaises ==
    /\ ToRender2
    /\ \E ans \in HostAnswers(Name2) :
         LET eff == RenderSingleSprite(Info2.source, ans)
         IN  /\ eff.ret.kind = "raised"
             /\ host2' = HostAfter(host2, Name2, eff)
    /\ results2' = [results2 EXCEPT !.failed = Append(@, Name2)]
    /\ idx2' = idx2 + 1
    /\ UNCHANGED <<pc2, argv2, args2, stage1_manifest, sprite_data2, sprite_manifest, exit2>>

\* A faulty variant: every name listed under every role.
RolesIndexMutant(data) ==
    LET all_roles == {data[k].role : k \in DOMAIN data}
    IN  [role \in all_roles |->
           SelectSeq(SortedSovietNames, LAMBDA k : k \in DOMAIN data)]
\* The "roles" index: each role of sprite_data with its names, sorted.
RolesIndex(data) ==
    LET all_roles == {data[k].role : k \in DOMAIN data}
    IN  [role \in all_roles |->
           SelectSeq(SortedSovietNames, LAMBDA k : k \in DOMAIN data /\ data[k].role = role)]

\* After the loop: the sprite manifest is dumped.
S2WriteManifest ==
    /\ pc2 = "loop"
    /\ idx2 > Len(SortedNames(Assets2))
    /\ sprite_manifest' = [exists |-> TRUE, dumps |-> sprite_manifest.dumps + 1,
                           sprites |-> sprite_data2, roles |-> RolesIndex(sprite_data2)]
    /\ pc2' = "done"
    /\ UNCHANGED <<argv2, args2, stage1_manifest, idx2, results2, sprite_data2, exit2, host2>>

S2Idle ==
    /\ pc2 = "off"
    /\ argv2 = <<>>
    /\ args2 = [only |-> NoValue, engine |-> "cycles"]
    /\ stage1_manifest = [exists |-> FALSE, assets |-> EmptyMap]
    /\ idx2 = 0
    /\ results2 = [success |-> <<>>, failed |-> <<>>, skipped |-> <<>>]
    /\ sprite_data2 = EmptyMap
    /\ sprite_manifest = NoSpriteManifest
    /\ exit2 = NoExit
    /\ host2 = NoHost2

-----------------------------------------------------------------------------
(***************************************************************************)
(* Stage 3: render_hex_tiles.py                                            *)
(***************************************************************************)

MaxTiles == 2

\* TILE_CATEGORIES, flattened in its order; the model takes the first
\* MaxTiles tiles of the kit as ALL_TILES.
TileOrder == <<"grass", "dirt", "stone", "sand", "water", "grass-forest">>
ALL_TILES == SubSeq(TileOrder, 1, Min(MaxTiles, Len(TileOrder)))

TILE_TO_CATEGORY(t) == IF t = "grass-forest" THEN "terrain_feature" ELSE "terrain"

DefaultSeasons == <<"winter", "mud", "summer">>

ParseStepSeason3(custom, i, args) == [args EXCEPT !.season = Lower(custom[i + 1])]

\* parse_args of render_hex_tiles.py; custom is 1-indexed here.
RECURSIVE ParseFrom3(_, _, _)
ParseFrom3(custom, i, args) ==
    IF i > Len(custom) THEN args
    ELSE IF custom[i] = "--only" /\ i + 1 <= Len(custom)
         THEN ParseFrom3(custom, i + 2, [args EXCEPT !.only = custom[i + 1]])
    ELSE IF custom[i] = "--engine" /\ i + 1 <= Len(custom)
         THEN ParseFrom3(custom, i + 2, [args EXCEPT !.engine = Lower(custom[i + 1])])
    ELSE IF custom[i] = "--season" /\ i + 1 <= Len(custom)
         THEN ParseFrom3(custom, i + 2, ParseStepSeason3(custom, i, args))
    ELSE ParseFrom3(custom, i + 1, args)

NoArgs3 == [only |-> NoValue, engine |-> "cycles", season |-> NoValue]

ParseArgs3(custom) == ParseFrom3(custom, 1, NoArgs3)

\* Command lines of the model.
Argv3 ==
    {<<>>}
    \cup { <<"--season", x>> : x \in {"", "Winter", "mud", "autumn"} }
    \cup { <<"--only", x>> : x \in {"", "lava", ALL_TILES[1], ALL_TILES[Len(ALL_TILES)]} }
    \cup { <<"--season", "MUD", "--only", ALL_TILES[1]>>,
           <<"--only", "lava", "--season", "Winter">> }

\* seasons = [args["season"]] if args["season"] else ["winter", "mud", "summer"]
SeasonsFrom(args) == IF Truthy(args.season) THEN <<args.season>> ELSE DefaultSeasons

InSeq(x, seq) == \E i \in 1 .. Len(seq) : seq[i] = x

\* The host's answers to one render_single_tile call.
TileAnswers ==
    [glb_exists : BOOLEAN, raises : {"no", "import"}, meshes : 0 .. 1,
     shot : {[png |-> MakePng(5, 4, <<3, 3>>, NoPos, NoPos), anchor |-> <<3, 3>>, size |-> 1]}]

TileInfo(out, shot) ==
    [width |-> out.ret[3], height |-> out.ret[4],
     anchor_x |-> out.ret[1], anchor_y |-> out.ret[2], hex_size |-> shot.size]

NoTileInfo == [width |-> 0, height |-> 0, anchor_x |-> 0, anchor_y |-> 0, hex_size |-> 0]

\* The value render_single_tile returns when the scene holds no mesh object.
NoMeshTileReturn(shot) == [kind |-> "None", info |-> NoTileInfo]

\* render_single_tile: what it returns (or that it raised) and what it asked
\* of the host on the way.
RenderSingleTile(ans) ==
    LET out == AutoCrop(ans.shot.png, ans.shot.anchor[1], ans.shot.anchor[2])
        base == [imported |-> FALSE, meshes |-> -1, camera |-> FALSE, rendered |-> FALSE,
                 ret |-> [kind |-> "None", info |-> NoTileInfo]]
    IN  IF ~ans.glb_exists
        THEN base
        ELSE IF ans.raises = "import"
        THEN [base EXCEPT !.ret = [kind |-> "raised", info |-> NoTileInfo]]
        ELSE IF ans.meshes = 0
        THEN [base EXCEPT !.imported = TRUE, !.meshes = 0, !.ret = NoMeshTileReturn(ans.shot)]
        ELSE [base EXCEPT !.imported = TRUE, !.meshes = ans.meshes, !.camera = TRUE,
                          !.rendered = TRUE,
                          !.ret = [kind |-> "info", info |-> TileInfo(out, ans.shot)]]

\* last_meshes: the mesh objects the scene of the last call held after its
\* import, -1 when there was no import.  last_raised: the last call raised.
NoHost3 ==
    [colormaps |-> <<>>, calls |-> <<>>, last_raised |-> FALSE, cameras |-> {},
     last_meshes |-> -1, files |-> {}]

\* The host after one render_single_tile call for tile in season.
Host3After(host, season, tile, eff) ==
    [colormaps |-> host.colormaps,
     calls |-> Append(host.calls, <<season, tile>>),
     last_raised |-> eff.ret.kind = "raised",
     cameras |-> IF eff.camera THEN host.cameras \cup {<<season, tile>>} ELSE host.cameras,
     last_meshes |-> eff.meshes,
     files |-> IF eff.rendered THEN host.files \cup {<<"tiles", season, tile, ".png">>}
               ELSE host.files]

NoTileManifest == [exists |-> FALSE, dumps |-> 0, seasons |-> EmptyMap]

S3Init ==
    /\ pc3 = "start"
    /\ argv3 \in Argv3
    /\ args3 = NoArgs3
    /\ kit3 \in BOOLEAN
    /\ seasons3 = <<>>
    /\ tiles3 = <<>>
    /\ si3 = 0
    /\ ti3 = 0
    /\ results3 = [success |-> 0, failed |-> 0, skipped |-> 0]
    /\ season_sprites3 = EmptyMap
    /\ sprite_data3 = EmptyMap
    /\ tile_manifest = NoTileManifest
    /\ exit3 = NoExit
    /\ host3 = NoHost3

S3Idle ==
    /\ pc3 = "off"
    /\ argv3 = <<>>
    /\ args3 = NoArgs3
    /\ kit3 = FALSE
    /\ seasons3 = <<>>
    /\ tiles3 = <<>>
    /\ si3 = 0
    /\ ti3 = 0
    /\ results3 = [success |-> 0, failed |-> 0, skipped |-> 0]
    /\ season_sprites3 = EmptyMap
    /\ sprite_data3 = EmptyMap
    /\ tile_manifest = NoTileManifest
    /\ exit3 = NoExit
    /\ host3 = NoHost3

\* run_hex_tile_pipeline when HEX_KIT_DIR is absent.
S3NoKit ==
    /\ pc3 = "start"
    /\ ~kit3
    /\ args3' = ParseArgs3(argv3)
    /\ seasons3' = SeasonsFrom(args3')
    /\ exit3' = 1
    /\ pc3' = "exited"
    /\ UNCHANGED <<argv3, kit3, tiles3, si3, ti3, results3, season_sprites3, sprite_data3,
                   tile_manifest, host3>>

\* load_and_remap_colormap raises for the k-th season: the run ends with the
\* exception.
S3ColormapRaises ==
    /\ pc3 = "start"
    /\ kit3
    /\ args3' = ParseArgs3(argv3)
    /\ seasons3' = SeasonsFrom(args3')
    /\ \E k \in 1 .. Len(seasons3') :
         host3' = [host3 EXCEPT !.colormaps = SubSeq(seasons3', 1, k - 1)]
    /\ pc3' = "raised"
    /\ UNCHANGED <<argv3, kit3, tiles3, si3, ti3, results3, season_sprites3, sprite_data3,
                   tile_manifest, exit3>>

\* args["only"] is given and is not in ALL_TILES
UnknownTile(only) == Truthy(only) /\ ~InSeq(only, ALL_TILES)

\* The colormaps are made, and --only names no tile of ALL_TILES.
S3UnknownTile ==
    /\ pc3 = "start"
    /\ kit3
    /\ args3' = ParseArgs3(argv3)
    /\ seasons3' = SeasonsFrom(args3')
    /\ host3' = [host3 EXCEPT !.colormaps = seasons3']
    /\ UnknownTile(args3'.only)
    /\ exit3' = 1
    /\ pc3' = "exited"
    /\ UNCHANGED <<argv3, kit3, tiles3, si3, ti3, results3, season_sprites3, sprite_data3,
                   tile_manifest>>

\* tiles_to_render
TilesToRender(only) == IF Truthy(only) THEN <<only>> ELSE ALL_TILES

\* The colormaps are made and the tiles chosen: the loops begin.
S3Begin ==
    /\ pc3 = "start"
    /\ kit3
    /\ args3' = ParseArgs3(argv3)
    /\ seasons3' = SeasonsFrom(args3')
    /\ host3' = [host3 EXCEPT !.colormaps = seasons3']
    /\ ~UnknownTile(args3'.only)
    /\ tiles3' = TilesToRender(args3'.only)
    /\ si3' = 1
    /\ ti3' = 1
    /\ pc3' = "loop"
    /\ UNCHANGED <<argv3, kit3, results3, season_sprites3, sprite_data3, tile_manifest, exit3>>

InTileLoop == pc3 = "loop" /\ si3 <= Len(seasons3) /\ ti3 <= Len(tiles3)
Season3 == seasons3[si3]
Tile3 == tiles3[ti3]

\* {"sprite": ..., "category": category, **info}
TileEntry(season, tile, info) ==
    [sprite |-> <<"sprites/soviet/tiles/", season, "/", tile, ".png">>,
     category |-> TILE_TO_CATEGORY(tile),
     width |-> info.width, height |-> info.height,
     anchor_x |-> info.anchor_x, anchor_y |-> info.anchor_y, hex_size |-> info.hex_size]

\* One pass of the inner loop: render_single_tile returned the metadata.
S3RenderOk ==
    /\ InTileLoop
    /\ \E ans \in TileAnswers :
         LET eff == RenderSingleTile(ans)
         IN  /\ eff.ret.kind = "info"
             /\ host3' = Host3After(host3, Season3, Tile3, eff)
             /\ season_sprites3' = MapPut(season_sprites3, Tile3,
                                          TileEntry(Season3, Tile3, eff.ret.info))
    /\ results3' = [results3 EXCEPT !.success = @ + 1]
    /\ ti3' = ti3 + 1
    /\ UNCHANGED <<pc3, argv3, args3, kit3, seasons3, tiles3, si3, sprite_data3,
                   tile_manifest, exit3>>

\* One pass of the inner loop: render_single_tile returned None.
S3RenderNone ==
    /\ InTileLoop
    /\ \E ans \in TileAnswers :
         LET eff == RenderSingleTile(ans)
         IN  /\ eff.ret.kind = "None"
             /\ host3' = Host3After(host3, Season3, Tile3, eff)
    /\ results3' = [results3 EXCEPT !.failed = @ + 1]
    /\ ti3' = ti3 + 1
    /\ UNCHANGED <<pc3, argv3, args3, kit3, seasons3, tiles3, si3, season_sprites3,
                   sprite_data3, tile_manifest, exit3>>

\* One pass of the inner loop: render_single_tile raised.
S3RenderRaises ==
    /\ InTileLoop
    /\ \E ans \in TileAnswers :
         LET eff == RenderSingleTile(ans)
         IN  /\ eff.ret.kind = "raised"
             /\ host3' = Host3After(host3, Season3, Tile3, eff)
    /\ results3' = [results3 EXCEPT !.failed = @ + 1]
    /\ ti3' = ti3 + 1
    /\ UNCHANGED <<pc3, argv3, args3, kit3, seasons3, tiles3, si3, season_sprites3,
                   sprite_data3, tile_manifest, exit3>>

\* The inner loop is over: sprite_data[season] = season_sprites, next season.
S3EndSeason ==
    /\ pc3 = "loop"
    /\ si3 <= Len(seasons3)
    /\ ti3 > Len(tiles3)
    /\ sprite_data3' = MapPut(sprite_data3, Season3, season_sprites3)
    /\ season_sprites3' = EmptyMap
    /\ si3' = si3 + 1
    /\ ti3' = 1
    /\ UNCHANGED <<pc3, argv3, args3, kit3, seasons3, tiles3, results3, tile_manifest,
                   exit3, host3>>

\* After the loops: the tile manifest is dumped.
S3WriteManifest ==
    /\ pc3 = "loop"
    /\ si3 > Len(seasons3)
    /\ tile_manifest' = [exists |-> TRUE, dumps |-> tile_manifest.dumps + 1,
                         seasons |-> sprite_data3]
    /\ pc3' = "done"
    /\ UNCHANGED <<argv3, args3, kit3, seasons3, tiles3, si3, ti3, results3,
                   season_sprites3, sprite_data3, exit3, host3>>

-----------------------------------------------------------------------------
(***************************************************************************)
(* Stage 1: sovietize_kenney.py, sovietize_model                           *)
(*                                                                         *)
(* A name is a sequence of characters, so that lower() and the substring   *)
(* tests are computed.  A material is [kind, name]; an empty slot holds    *)
(* NoMaterial.  A scene is [objects, meshes]: each object has a type and   *)
(* the mesh data block it uses, and a mesh data block carries the material *)
(* slots, shared by every object that uses the data block.                 *)
(***************************************************************************)

MaxObjects == 2
MaxSlots == 2

UpperCase == <<"A", "B", "C", "D", "E", "F", "G", "H", "I", "J", "K", "L", "M",
               "N", "O", "P", "Q", "R", "S", "T", "U", "V", "W", "X", "Y", "Z">>
LowerCase == <<"a", "b", "c", "d", "e", "f", "g", "h", "i", "j", "k", "l", "m",
               "n", "o", "p", "q", "r", "s", "t", "u", "v", "w", "x", "y", "z">>

LowerChar(ch) ==
    IF \E i \in 1 .. Len(UpperCase) : UpperCase[i] = ch
    THEN LowerCase[CHOOSE i \in 1 .. Len(UpperCase) : UpperCase[i] = ch]
    ELSE ch

\* str.lower()
LowerName(name) == [i \in 1 .. Len(name) |-> LowerChar(name[i])]

\* sub in name
Contains(name, sub) ==
    \E i \in 1 .. Len(name) - Len(sub) + 1 : SubSeq(name, i, i + Len(sub) - 1) = sub

GlassWord == <<"g", "l", "a", "s", "s">>
WindowWord == <<"w", "i", "n", "d", "o", "w">>
SovietPrefix == <<"s", "o", "v", "i", "e", "t", "_">>

\* Material names a Kenney GLB may carry.
ColormapName == <<"c", "o", "l", "o", "r", "m", "a", "p">>
GlassName == <<"G", "l", "a", "s", "s">>
WindowName == <<"w", "i", "n", "d", "o", "w", "s">>

\* soviet_name of two assets of the manifests: "wall-window" and "fence".
WallWindow == <<"w", "a", "l", "l", "-", "w", "i", "n", "d", "o", "w">>
Fence == <<"f", "e", "n", "c", "e">>
SovietNames == {WallWindow, Fence}

NoMaterial == [kind |-> "none", name |-> <<>>]
ImportedMaterials == {[kind |-> "imported", name |-> n] : n \in {ColormapName, GlassName, WindowName}}

\* create_soviet_material(profile, f"soviet_{soviet_name}") and
\* create_soviet_glass_material()
ConcreteMat(soviet_name) == [kind |-> "concrete", name |-> SovietPrefix \o soviet_name]
GlassMat == [kind |-> "glass", name |-> SovietPrefix \o GlassWord]

SeqsUpTo(S, n) == UNION {[1 .. k -> S] : k \in 0 .. n}

\* The objects of an imported scene: empties and mesh objects, each mesh
\* object using data block 1 or 2; two objects may use the same data block.
SceneObjects ==
    SeqsUpTo({[type |-> "EMPTY", data |-> 0], [type |-> "MESH", data |-> 1],
              [type |-> "MESH", data |-> 2]}, MaxObjects)

\* The scenes an import may give: data block 1 with up to MaxSlots slots,
\* data block 2 with at most one.
ImportedScenes1 ==
    { [objects |-> objs, meshes |-> <<s1, s2>>] :
        objs \in SceneObjects,
        s1 \in SeqsUpTo(ImportedMaterials \cup {NoMaterial}, MaxSlots),
        s2 \in SeqsUpTo(ImportedMaterials \cup {NoMaterial}, 1) }

\* "glass" in old_name or "window" in old_name
IsGlassName(old_name) == Contains(old_name, GlassWord) \/ Contains(old_name, WindowWord)

\* The body of the slot loop for slot j of the data block d.
SwapSlot(meshes, d, j, concrete_mat, glass_mat) ==
    LET material == meshes[d][j]
    IN  IF material = NoMaterial
        THEN meshes
        ELSE LET old_name == LowerName(material.name)
             IN  IF IsGlassName(old_name)
                 THEN [meshes EXCEPT ![d][j] = glass_mat]
                 ELSE [meshes EXCEPT ![d][j] = concrete_mat]

\* for i, slot in enumerate(obj.material_slots), from slot j on
RECURSIVE SwapSlots(_, _, _, _, _)
SwapSlots(meshes, d, j, concrete_mat, glass_mat) ==
    IF j > Len(meshes[d]) THEN meshes
    ELSE SwapSlots(SwapSlot(meshes, d, j, concrete_mat, glass_mat), d, j + 1,
                   concrete_mat, glass_mat)

\* for obj in bpy.context.scene.objects, from object i on
RECURSIVE SwapObjects(_, _, _, _, _)
SwapObjects(objects, meshes, i, concrete_mat, glass_mat) ==
    IF i > Len(objects) THEN meshes
    ELSE IF objects[i].type # "MESH"
    THEN SwapObjects(objects, meshes, i + 1, concrete_mat, glass_mat)
    ELSE SwapObjects(objects, SwapSlots(meshes, objects[i].data, 1, concrete_mat, glass_mat),
                     i + 1, concrete_mat, glass_mat)

EmptyScene == [objects |-> <<>>, meshes |-> <<<<>>, <<>>>>]

\* sovietize_model: its return value, the scene it leaves, the GLB exported.
SovietizeModel(source_exists, imported, soviet_name) ==
    IF ~source_exists
    THEN [ret |-> FALSE, imported |-> FALSE, scene |-> EmptyScene, exported |-> FALSE]
    ELSE [ret |-> TRUE, imported |-> TRUE,
          scene |-> [objects |-> imported.objects,
                     meshes |-> SwapObjects(imported.objects, imported.meshes, 1,
                                            ConcreteMat(soviet_name), GlassMat)],
          exported |-> TRUE]

SwapInit ==
    /\ sov_pc = "start"
    /\ sov_name \in SovietNames
    /\ sov_source \in BOOLEAN
    /\ imported_scene \in ImportedScenes1
    /\ scene1 = EmptyScene
    /\ sov_out = [ret |-> FALSE, imported |-> FALSE, exported |-> FALSE]

SwapIdle ==
    /\ sov_pc = "off"
    /\ sov_name = Fence
    /\ sov_source = FALSE
    /\ imported_scene = EmptyScene
    /\ scene1 = EmptyScene
    /\ sov_out = [ret |-> FALSE, imported |-> FALSE, exported |-> FALSE]

\* One call of sovietize_model.
CallSovietizeModel ==
    /\ sov_pc = "start"
    /\ LET out == SovietizeModel(sov_source, imported_scene, sov_name)
       IN  /\ scene1' = out.scene
           /\ sov_out' = [ret |-> out.ret, imported |-> out.imported, exported |-> out.exported]
    /\ sov_pc' = "returned"
    /\ UNCHANGED <<sov_name, sov_source, imported_scene>>

-----------------------------------------------------------------------------
(***************************************************************************)
(* Stage 1: sovietize_kenney.py, run_pipeline                              *)
(*                                                                         *)
(* A run of the model processes MaxBuildings consecutive entries of the    *)
(* first table and MaxSuburban consecutive entries of the second, in the   *)
(* tables' order.                                                          *)
(***************************************************************************)

MaxBuildings == 2
MaxSuburban == 2

\* TextureProfile.name
ProfileName(profile) ==
    CASE profile = "CONCRETE_RESIDENTIAL" -> "Concrete022"
      [] profile = "CONCRETE_INDUSTRIAL" -> "Concrete024"
      [] profile = "CONCRETE_GOVERNMENT" -> "Concrete026"
      [] profile = "CONCRETE_INSTITUTIONAL" -> "Concrete015"
      [] profile = "CONCRETE_ROUGH" -> "Concrete028"

\* The role lists the manifest is written with, in the order written.
ROLE_NAMES ==
    <<"housing", "government", "industry", "services", "military", "culture", "power",
      "agriculture", "propaganda", "transport", "modular", "utility", "environment">>

\* n consecutive entries of a table, after the first off.
Window(table, off, n) == SubSeq(table, off + 1, Min(Len(table), off + n))

Tables1 ==
    { [buildings |-> Window(BUILDING_MANIFEST, ob, MaxBuildings),
       suburban |-> Window(SUBURBAN_MANIFEST, os, MaxSuburban)] :
        ob \in 0 .. Len(BUILDING_MANIFEST) - 1, os \in 0 .. Len(SUBURBAN_MANIFEST) - 1 }

\* A dict in insertion order: its keys as a sequence, its values as a map.
EmptyDict == [order |-> <<>>, at |-> <<>>]
DictPut(d, k, v) ==
    [order |-> IF k \in DOMAIN d.at THEN d.order ELSE Append(d.order, k),
     at |-> MapPut(d.at, k, v)]

\* The scene the imports of a run give: one mesh object with one slot.
PipelineScene ==
    [objects |-> <<[type |-> "MESH", data |-> 1]>>,
     meshes |-> <<<<[kind |-> "imported", name |-> ColormapName]>>, <<>>>>]

NoHost1 == [calls |-> <<>>, imports |-> <<>>, exports |-> <<>>]

\* What one call of sovietize_model leaves with the host.
Host1After(host, kit, entry, source_exists, out) ==
    [calls |-> Append(host.calls, [kit |-> kit, source |-> entry[1], name |-> entry[2],
                                   source_exists |-> source_exists, ret |-> out.ret]),
     imports |-> IF out.imported THEN Append(host.imports, <<kit, entry[1]>>) ELSE host.imports,
     exports |-> IF out.exported THEN Append(host.exports, entry[2]) ELSE host.exports]

NoAssetManifest == [dumps |-> 0, assets |-> EmptyDict, roles |-> <<>>]

S1Init ==
    /\ pc1 = "buildings"
    /\ tables1 \in Tables1
    /\ idx1 = 1
    /\ results1 = [success |-> <<>>, failed |-> <<>>, skipped |-> <<>>]
    /\ manifest_data1 = EmptyDict
    /\ asset_manifest = NoAssetManifest
    /\ host1 = NoHost1

S1Idle ==
    /\ pc1 = "off"
    /\ tables1 = [buildings |-> <<>>, suburban |-> <<>>]
    /\ idx1 = 1
    /\ results1 = [success |-> <<>>, failed |-> <<>>, skipped |-> <<>>]
    /\ manifest_data1 = EmptyDict
    /\ asset_manifest = NoAssetManifest
    /\ host1 = NoHost1

Table1 == IF pc1 = "buildings" THEN tables1.buildings ELSE tables1.suburban
Kit1 == IF pc1 = "buildings" THEN "MODULAR_BUILDINGS" ELSE "CITY_KIT_SUBURBAN"
InLoop1 == pc1 \in {"buildings", "suburban"} /\ idx1 <= Len(Table1)
Entry1 == Table1[idx1]

\* manifest_data[soviet_name] = {...}
AssetEntry(entry) ==
    [file |-> <<"models/soviet/", entry[2], ".glb">>, source |-> entry[1],
     role |-> entry[4], texture |-> ProfileName(entry[3])]

\* A faulty variant: a missing source of the second table counted as failed.
MissingListMutant(kit) == "failed"
\* The list of results a name goes to when sovietize_model returns False.
MissingList(kit) == IF kit = "MODULAR_BUILDINGS" THEN "failed" ELSE "skipped"

\* One iteration of either loop: sovietize_model returns.
S1Sovietize ==
    /\ InLoop1
    /\ \E source_exists \in BOOLEAN :
          LET out == SovietizeModel(source_exists, PipelineScene, Fence)
          IN  /\ host1' = Host1After(host1, Kit1, Entry1, source_exists, out)
              /\ IF out.ret
                 THEN /\ results1' = [results1 EXCEPT !.success = Append(@, Entry1[2])]
                      /\ manifest_data1' = DictPut(manifest_data1, Entry1[2], AssetEntry(Entry1))
                 ELSE /\ results1' = [results1 EXCEPT ![MissingList(Kit1)] = Append(@, Entry1[2])]
                      /\ UNCHANGED manifest_data1
    /\ idx1' = idx1 + 1
    /\ UNCHANGED <<pc1, tables1, asset_manifest>>

\* One iteration of either loop: the import or the export raises, and nothing
\* in run_pipeline catches it.
S1SovietizeRaises ==
    /\ InLoop1
    /\ pc1' = "raised"
    /\ host1' = [host1 EXCEPT !.imports = Append(@, <<Kit1, Entry1[1]>>)]
    /\ UNCHANGED <<tables1, idx1, results1, manifest_data1, asset_manifest>>

\* The first loop is over.
S1EndBuildings ==
    /\ pc1 = "buildings"
    /\ idx1 > Len(tables1.buildings)
    /\ pc1' = "suburban"
    /\ idx1' = 1
    /\ UNCHANGED <<tables1, results1, manifest_data1, asset_manifest, host1>>

\* [k for k, v in manifest_data.items() if v["role"] == role]
RoleList(data, role) ==
    LET Has(k) == data.at[k].role = role IN SelectSeq(data.order, Has)

\* A faulty variant: the "utility" list forgotten.
RolesOfMutant(data) ==
    [r \in {ROLE_NAMES[i] : i \in 1 .. Len(ROLE_NAMES)} \ {"utility"} |-> RoleList(data, r)]
\* The "roles" of the manifest.
RolesOf(data) == [r \in {ROLE_NAMES[i] : i \in 1 .. Len(ROLE_NAMES)} |-> RoleList(data, r)]

\* The second loop is over: json.dump of the manifest.
S1WriteManifest ==
    /\ pc1 = "suburban"
    /\ idx1 > Len(tables1.suburban)
    /\ asset_manifest' = [dumps |-> asset_manifest.dumps + 1, assets |-> manifest_data1,
                          roles |-> RolesOf(manifest_data1)]
    /\ pc1' = "done"
    /\ UNCHANGED <<tables1, idx1, results1, manifest_data1, host1>>

-----------------------------------------------------------------------------
(***************************************************************************)
(* Stage 1 followed by Stage 2                                             *)
(*                                                                         *)
(* render_sprites.py is started once sovietize_kenney.py has ended, and    *)
(* reads the manifest.json that run left, if it left one.                  *)
(***************************************************************************)

\* The tables of a chained run: a utility and modular pieces of the first,
\* two buildings of one role of the second.
ChainTables1 ==
    [buildings |-> Window(BUILDING_MANIFEST, 7, MaxBuildings),
     suburban |-> Window(SUBURBAN_MANIFEST, 0, MaxSuburban)]

\* Command lines of a chained run: none, or --only one name of the tables.
ChainArgv2 ==
    {<<>>}
    \cup { <<"--only", ChainTables1.buildings[i][2]>> : i \in 1 .. Len(ChainTables1.buildings) }
    \cup { <<"--only", ChainTables1.suburban[i][2]>> : i \in 1 .. Len(ChainTables1.suburban) }

\* MANIFEST_PATH as Stage 1 left it: json.load gives the "assets" of the
\* json.dump, name for name; there is no file when nothing was dumped.
ManifestOnDisk(written) ==
    IF written.dumps > 0
    THEN [exists |-> TRUE, assets |-> written.assets.at]
    ELSE [exists |-> FALSE, assets |-> EmptyMap]

\* render_sprites.py is started after the Stage 1 run has ended.
S2Launch ==
    /\ pc1 \in {"done", "raised"}
    /\ pc2 = "off"
    /\ argv2' \in ChainArgv2
    /\ stage1_manifest' = ManifestOnDisk(asset_manifest)
    /\ pc2' = "start"
    /\ UNCHANGED <<args2, idx2, results2, sprite_data2, sprite_manifest, exit2, host2>>

-----------------------------------------------------------------------------
(***************************************************************************)
(* Specifications: one per script or function                              *)
(***************************************************************************)

CropNext == CallAutoCrop /\ UNCHANGED <<s2Vars, s3Vars, swapVars, s1Vars>>

InitCrop == CropInit /\ S2Idle /\ S3Idle /\ SwapIdle /\ S1Idle

SpecCrop == InitCrop /\ [][CropNext]_vars

S2Next ==
    \/ S2NoManifest /\ UNCHANGED <<cropVars, s3Vars, swapVars, s1Vars>>
    \/ S2LoadManifest /\ UNCHANGED <<cropVars, s3Vars, swapVars, s1Vars>>
    \/ S2SkipModular /\ UNCHANGED <<cropVars, s3Vars, swapVars, s1Vars>>
    \/ S2SkipNotOnly /\ UNCHANGED <<cropVars, s3Vars, swapVars, s1Vars>>
    \/ S2MissGlb /\ UNCHANGED <<cropVars, s3Vars, swapVars, s1Vars>>
    \/ S2RenderOk /\ UNCHANGED <<cropVars, s3Vars, swapVars, s1Vars>>
    \/ S2RenderNone /\ UNCHANGED <<cropVars, s3Vars, swapVars, s1Vars>>
    \/ S2RenderRaises /\ UNCHANGED <<cropVars, s3Vars, swapVars, s1Vars>>
    \/ S2WriteManifest /\ UNCHANGED <<cropVars, s3Vars, swapVars, s1Vars>>

InitStage2 == S2Init /\ CropIdle /\ S3Idle /\ SwapIdle /\ S1Idle

SpecStage2 == InitStage2 /\ [][S2Next]_vars

S3Next ==
    \/ S3NoKit /\ UNCHANGED <<cropVars, s2Vars, swapVars, s1Vars>>
    \/ S3ColormapRaises /\ UNCHANGED <<cropVars, s2Vars, swapVars, s1Vars>>
    \/ S3UnknownTile /\ UNCHANGED <<cropVars, s2Vars, swapVars, s1Vars>>
    \/ S3Begin /\ UNCHANGED <<cropVars, s2Vars, swapVars, s1Vars>>
    \/ S3RenderOk /\ UNCHANGED <<cropVars, s2Vars, swapVars, s1Vars>>
    \/ S3RenderNone /\ UNCHANGED <<cropVars, s2Vars, swapVars, s1Vars>>
    \/ S3RenderRaises /\ UNCHANGED <<cropVars, s2Vars, swapVars, s1Vars>>
    \/ S3EndSeason /\ UNCHANGED <<cropVars, s2Vars, swapVars, s1Vars>>
    \/ S3WriteManifest /\ UNCHANGED <<cropVars, s2Vars, swapVars, s1Vars>>

InitStage3 == S3Init /\ CropIdle /\ S2Idle /\ SwapIdle /\ S1Idle

SpecStage3 == InitStage3 /\ [][S3Next]_vars

\* Either renderer, run on its own.
InitRender == InitStage2 \/ InitStage3

RenderNext == S2Next \/ S3Next

SpecRender == InitRender /\ [][RenderNext]_vars

SwapNext == CallSovietizeModel /\ UNCHANGED <<cropVars, s2Vars, s3Vars, s1Vars>>

InitSwap == SwapInit /\ CropIdle /\ S2Idle /\ S3Idle /\ S1Idle

SpecSwap == InitSwap /\ [][SwapNext]_vars

S1Next ==
    \/ S1Sovietize /\ UNCHANGED <<cropVars, s2Vars, s3Vars, swapVars>>
    \/ S1SovietizeRaises /\ UNCHANGED <<cropVars, s2Vars, s3Vars, swapVars>>
    \/ S1EndBuildings /\ UNCHANGED <<cropVars, s2Vars, s3Vars, swapVars>>
    \/ S1WriteManifest /\ UNCHANGED <<cropVars, s2Vars, s3Vars, swapVars>>

InitStage1 == S1Init /\ CropIdle /\ S2Idle /\ S3Idle /\ SwapIdle

SpecStage1 == InitStage1 /\ [][S1Next]_vars

ChainNext ==
    \/ S1Next
    \/ S2Launch /\ UNCHANGED <<cropVars, s3Vars, swapVars, s1Vars>>
    \/ S2Next

InitChain == S1Init /\ tables1 = ChainTables1 /\ CropIdle /\ S2Idle /\ S3Idle /\ SwapIdle

SpecChain == InitChain /\ [][ChainNext]_vars

-----------------------------------------------------------------------------
(***************************************************************************)
(* Claims about auto_crop_png                                              *)
(***************************************************************************)

HasVisible(file) ==
    \E y \in 0 .. file.h - 1, x \in 0 .. file.w - 1 : AlphaVisible(file.px[y][x])

InFrame(file, x, y) == x \in 0 .. file.w - 1 /\ y \in 0 .. file.h - 1

Box0 == CropBox(LoadPixels(png0), png0.w, png0.h)

\* C1: for an image with a pixel of alpha > 0.01, the returned anchor is the
\* input anchor moved by the crop: new_anchor_x = anchor_x - cmin and
\* new_anchor_y = anchor_y - (h - 1 - rmax), the rows removed from the top of
\* the PNG; an anchor on a pixel the crop keeps is on the same pixel of the
\* saved file.
C1_AnchorFollowsCrop ==
    (crop_pc = "returned" /\ HasVisible(png0)) =>
        /\ LET box == Box0
           IN  /\ crop_ret[1] = anchor_in[1] - box.cmin
               /\ crop_ret[2] = anchor_in[2] - (png0.h - 1 - box.rmax)
        /\ (InFrame(png0, anchor_in[1], anchor_in[2]) /\ InFrame(png, crop_ret[1], crop_ret[2]))
              => png.px[crop_ret[2]][crop_ret[1]] = png0.px[anchor_in[2]][anchor_in[1]]

\* C1 witness: a crop that removed rows from the top and columns from the
\* left, with the anchor on an opaque pixel.
C1_Witness ==
    /\ crop_pc = "returned"
    /\ HasVisible(png0)
    /\ png0.h - 1 - Box0.rmax > 0
    /\ Box0.cmin > 0
    /\ InFrame(png0, anchor_in[1], anchor_in[2])
    /\ png0.px[anchor_in[2]][anchor_in[1]].a = Alpha.opaque
    /\ crop_ret[2] < anchor_in[2]
    /\ crop_ret[1] < anchor_in[1]

\* C2: auto_crop_png never trims visible content: every pixel of the original
\* with alpha > 0.01 lies inside [rmin..rmax] x [cmin..cmax], the saved image
\* holds at (row - rmin, col - cmin) the value the original held at (row, col),
\* and the returned width and height are cmax - cmin + 1 and rmax - rmin + 1,
\* within 1..w and 1..h.
C2_CropKeepsVisible ==
    (crop_pc = "returned" /\ HasVisible(png0)) =>
        LET before == LoadPixels(png0)
            after == LoadPixels(png)
            box == Box0
            rmin == box.rmin
            rmax == box.rmax
            cmin == box.cmin
            cmax == box.cmax
        IN  /\ \A row \in 0 .. png0.h - 1, col \in 0 .. png0.w - 1 :
                  AlphaVisible(before[row][col]) =>
                      (row \in rmin .. rmax /\ col \in cmin .. cmax)
            /\ crop_ret[3] = cmax - cmin + 1
            /\ crop_ret[4] = rmax - rmin + 1
            /\ crop_ret[3] \in 1 .. png0.w
            /\ crop_ret[4] \in 1 .. png0.h
            /\ png.w = crop_ret[3]
            /\ png.h = crop_ret[4]
            /\ \A row \in rmin .. rmax, col \in cmin .. cmax :
                  after[row - rmin][col - cmin] = before[row][col]

\* C2 witness: a crop that kept two visible pixels and made the image smaller
\* in both directions.
C2_Witness ==
    /\ crop_pc = "returned"
    /\ Cardinality({p \in Positions(png0.w, png0.h) : AlphaVisible(png0.px[p[1]][p[2]])}) = 2
    /\ crop_ret[3] < png0.w
    /\ crop_ret[4] < png0.h
    /\ Cardinality({p \in Positions(png.w, png.h) : AlphaVisible(png.px[p[1]][p[2]])}) = 2

\* No pixel of the file has an alpha above 0.01 (8-bit alpha a: a / 255).
FullyTransparent(file) ==
    \A y \in 0 .. file.h - 1, x \in 0 .. file.w - 1 : file.px[y][x].a * 100 <= 255

\* C12: on a fully transparent image (no pixel with alpha > 0.01)
\* auto_crop_png returns the anchor it was given and the original width and
\* height, creates and saves no cropped image, and the PNG file stays as
\* rendered.
C12_TransparentUntouched ==
    (crop_pc = "returned" /\ FullyTransparent(png0)) =>
        /\ crop_ret = <<anchor_in[1], anchor_in[2], png0.w, png0.h>>
        /\ ~crop_saved
        /\ png = png0

\* C12 witness: the call returned on an image wider than one pixel whose only
\* content is a pixel below the threshold, with an anchor outside the frame.
C12_Witness ==
    /\ crop_pc = "returned"
    /\ FullyTransparent(png0)
    /\ \E y \in 0 .. png0.h - 1, x \in 0 .. png0.w - 1 : png0.px[y][x].a = Alpha.faint
    /\ png0.w > 1
    /\ anchor_in = <<-1, png0.h>>
    /\ crop_ret = <<-1, png0.h, png0.w, png0.h>>

-----------------------------------------------------------------------------
(***************************************************************************)
(* Claims about Stage 2                                                    *)
(***************************************************************************)

Range(seq) == {seq[i] : i \in 1 .. Len(seq)}

ModularAssets2 == {n \in DOMAIN Assets2 : Get(Assets2[n], "role", "") = "modular"}

\* The position of a name in the iteration order of the loop.
Pos2(n) == CHOOSE i \in 1 .. Len(SortedNames(Assets2)) : SortedNames(Assets2)[i] = n

InRolesIndex(roles, n) == \E r \in DOMAIN roles : n \in Range(roles[r])

\* C3: Stage 2 never renders an asset whose role is "modular": with or
\* without --only, it is appended to skipped once the loop has passed it,
\* render_single_sprite is never called for it, and it is in neither
\* "sprites" nor "roles" of the sprite manifest.
C3_ModularNeverRendered ==
    \A n \in ModularAssets2 :
        /\ n \notin Range(host2.calls)
        /\ n \notin DOMAIN sprite_data2
        /\ n \notin DOMAIN sprite_manifest.sprites
        /\ ~InRolesIndex(sprite_manifest.roles, n)
        /\ "modular" \notin DOMAIN sprite_manifest.roles
        /\ (pc2 \in {"loop", "done"} /\ idx2 > Pos2(n)) => n \in Range(results2.skipped)

\* C3 witness: a finished run named a modular asset with --only, skipped it,
\* and rendered nothing.
C3_Witness ==
    /\ pc2 = "done"
    /\ args2.only \in ModularAssets2
    /\ args2.only \in Range(results2.skipped)
    /\ Cardinality(DOMAIN Assets2) >= 2
    /\ host2.calls = <<>>

\* C3 witness of the run without --only: a modular asset skipped beside a
\* rendered one.
C3_WitnessAll ==
    /\ pc2 = "done"
    /\ args2.only = NoValue
    /\ ModularAssets2 # {}
    /\ DOMAIN sprite_manifest.sprites # {}

\* C4: with "--only X", render_single_sprite is called for at most one asset
\* and only for the asset named X; no other non-modular asset is in success
\* or failed, and the written "sprites" is a subset of {X}.
C4_OnlyRendersX ==
    (pc2 # "start" /\ args2.only # NoValue) =>
        /\ Len(host2.calls) <= 1
        /\ Range(host2.calls) \subseteq {args2.only}
        /\ \A n \in DOMAIN Assets2 \ ModularAssets2 :
              n # args2.only =>
                  n \notin Range(results2.success) \cup Range(results2.failed)
        /\ DOMAIN sprite_manifest.sprites \subseteq {args2.only}

\* C4 witness: a finished run given --only with an empty name has called the
\* renderer.
C4_Witness ==
    /\ pc2 = "done"
    /\ argv2 = <<"--only", "">>
    /\ host2.calls # <<>>
    /\ sprite_manifest.dumps = 1

\* C5: when the sprite manifest is written, the keys of "sprites" are the
\* names in results["success"], each entry has the role of the Stage 1
\* manifest and the width, height and anchor auto_crop_png returned for that
\* sprite's render, and no failed or skipped asset has an entry.
C5_ManifestDescribesRendered ==
    pc2 = "done" =>
        /\ DOMAIN sprite_manifest.sprites = Range(results2.success)
        /\ \A n \in DOMAIN sprite_manifest.sprites :
              LET e == sprite_manifest.sprites[n]
                  shot == host2.renders[n]
                  out == AutoCrop(shot.png, shot.anchor[1], shot.anchor[2])
              IN  /\ e.role = Get(Assets2[n], "role", "")
                  /\ <<e.anchor_x, e.anchor_y, e.width, e.height>> = out.ret
                  /\ host2.files[n] = out.file
        /\ \A n \in Range(results2.failed) \cup Range(results2.skipped) :
              n \notin DOMAIN sprite_manifest.sprites

\* C5 witness: a written manifest with a cropped sprite (wider than high)
\* beside a failed asset.
C5_Witness ==
    /\ pc2 = "done"
    /\ results2.failed # <<>>
    /\ \E n \in DOMAIN sprite_manifest.sprites :
          /\ sprite_manifest.sprites[n].width > sprite_manifest.sprites[n].height
          /\ sprite_manifest.sprites[n].width < host2.renders[n].png.w
          /\ sprite_manifest.sprites[n].role = "housing"

\* C6: started without the Stage 1 manifest file, Stage 2 exits with status 1
\* before any scene is cleared, any model imported or rendered, and without
\* writing the sprite manifest.
C6_NoManifestExits ==
    ~stage1_manifest.exists =>
        /\ pc2 \in {"start", "exited"}
        /\ pc2 = "exited" => exit2 = 1
        /\ host2 = NoHost2
        /\ sprite_manifest.dumps = 0
        /\ sprite_manifest.sprites = EmptyMap

\* C6 witness: the run has exited with status 1 and an older sprite manifest
\* is still on disk.
C6_Witness ==
    /\ ~stage1_manifest.exists
    /\ pc2 = "exited"
    /\ exit2 = 1
    /\ sprite_manifest.exists

-----------------------------------------------------------------------------
(***************************************************************************)
(* Claims about the two renderers                                          *)
(***************************************************************************)

\* Stage 2: an asset whose scene held no mesh object after the import and
\* the filter.
NoMeshHandled2 ==
    \A n \in DOMAIN host2.meshes :
        host2.meshes[n] = 0 =>
            /\ n \notin host2.cameras
            /\ n \notin DOMAIN host2.renders
            /\ n \notin DOMAIN host2.files
            /\ n \in Range(results2.failed)
            /\ n \notin Range(results2.success)
            /\ n \notin DOMAIN sprite_data2
            /\ n \notin DOMAIN sprite_manifest.sprites

\* Stage 3: a step in which render_single_tile found no mesh object.
NoMeshStep3 ==
    (Len(host3'.calls) = Len(host3.calls) + 1 /\ host3'.last_meshes = 0) =>
        /\ host3'.cameras = host3.cameras
        /\ host3'.files = host3.files
        /\ results3'.failed = results3.failed + 1
        /\ results3'.success = results3.success
        /\ season_sprites3' = season_sprites3

\* Stage 3: every entry that reaches sprite_data or the manifest is of a call
\* that created its camera and wrote its PNG.
EntriesRendered3 ==
    /\ \A t \in DOMAIN season_sprites3 : <<Season3, t>> \in host3.cameras
    /\ \A sn \in DOMAIN tile_manifest.seasons : \A t \in DOMAIN tile_manifest.seasons[sn] :
          <<sn, t>> \in host3.cameras /\ <<"tiles", sn, t, ".png">> \in host3.files

\* C7: render_single_sprite and render_single_tile return None when the scene
\* holds no mesh object after the import (in Stage 2, after
\* filter_to_source_mesh): no camera is created, nothing is rendered, no PNG
\* is written, the caller records the asset as failed and adds no manifest
\* entry.
C7_NoMeshReturnsNone ==
    [][NoMeshHandled2' /\ NoMeshStep3 /\ EntriesRendered3']_vars

\* C7 witness, Stage 2: the filter removed the only mesh of the scene (a
\* stale one), the asset is failed, and the manifest written has no entry.
C7_Witness ==
    /\ pc2 = "done"
    /\ \E n \in DOMAIN host2.meshes :
          /\ host2.meshes[n] = 0
          /\ Assets2[n].source # NoValue
          /\ n \in Range(results2.failed)
    /\ sprite_manifest.dumps = 1

\* C7 witness, Stage 3: a tile with no mesh counted as failed.
C7_WitnessTile ==
    /\ pc3 = "loop"
    /\ host3.last_meshes = 0
    /\ results3.failed = 1
    /\ host3.cameras = {}
    /\ Len(host3.calls) = 1

Occurrences(seq, x) == Cardinality({i \in 1 .. Len(seq) : seq[i] = x})

\* Stage 2: an asset whose rendering raised is in failed once, and nowhere
\* else; the run has not ended on it.
RaisedHandled2 ==
    \A n \in host2.raised :
        /\ pc2 \in {"loop", "done"}
        /\ Occurrences(results2.failed, n) = 1
        /\ n \notin Range(results2.success)
        /\ n \notin DOMAIN sprite_data2
        /\ n \notin DOMAIN sprite_manifest.sprites
        /\ ~InRolesIndex(sprite_manifest.roles, n)

\* Stage 2: the step in which a rendering raises goes on to the next asset.
RaiseStep2 ==
    host2'.raised # host2.raised =>
        /\ pc2' = "loop"
        /\ idx2' = idx2 + 1
        /\ results2'.failed = Append(results2.failed, Name2)
        /\ results2'.success = results2.success
        /\ sprite_data2' = sprite_data2

\* Stage 2: a finished run has been through every asset it was to render and
\* has written the manifest once.
AllProcessed2 ==
    pc2 = "done" =>
        /\ sprite_manifest.dumps = 1
        /\ sprite_manifest.sprites = sprite_data2
        /\ \A n \in DOMAIN Assets2 \ ModularAssets2 :
              (~Truthy(args2.only) \/ n = args2.only) =>
                  n \in Range(results2.success) \cup Range(results2.failed)

\* Stage 3: the step in which a rendering raises counts one failure, adds no
\* entry and goes on to the next tile.
RaiseStep3 ==
    (Len(host3'.calls) = Len(host3.calls) + 1 /\ host3'.last_raised) =>
        /\ pc3' = "loop"
        /\ si3' = si3 /\ ti3' = ti3 + 1
        /\ results3'.failed = results3.failed + 1
        /\ results3'.success = results3.success
        /\ season_sprites3' = season_sprites3
        /\ Tile3 \notin DOMAIN season_sprites3'
        /\ sprite_data3' = sprite_data3

\* Stage 3: a finished run has called the renderer for every tile of every
\* season, every call is counted once, and the manifest is written once.
AllProcessed3 ==
    pc3 = "done" =>
        /\ tile_manifest.dumps = 1
        /\ tile_manifest.seasons = sprite_data3
        /\ Len(host3.calls) = Len(seasons3) * Len(tiles3)
        /\ results3.success + results3.failed = Len(host3.calls)

\* C13: if rendering one asset or tile raises, the item is recorded as failed
\* exactly once and gets no manifest entry, the run goes on in the loop with
\* the next item, and a run that finishes has been through every item and
\* has written the manifest once.
C13_FailureIsolation ==
    [][RaiseStep2 /\ RaiseStep3 /\ RaisedHandled2' /\ AllProcessed2' /\ AllProcessed3']_vars

\* C13 witness, Stage 2: a finished run in which a rendering raised and an
\* asset later in the order was rendered.
C13_Witness ==
    /\ pc2 = "done"
    /\ sprite_manifest.dumps = 1
    /\ \E n \in host2.raised : \E k \in Range(results2.success) : Pos2(k) > Pos2(n)

\* C13 witness, Stage 3: a finished run whose last call raised and whose
\* manifest has an entry.
C13_WitnessTile ==
    /\ pc3 = "done"
    /\ host3.last_raised
    /\ results3.failed >= 1
    /\ results3.success >= 1
    /\ tile_manifest.dumps = 1

-----------------------------------------------------------------------------
(***************************************************************************)
(* Claims about Stage 3                                                    *)
(***************************************************************************)

SeasonGiven3 == args3.season # NoValue
OnlyGiven3 == args3.only # NoValue

SeqToSet(seq) == {seq[i] : i \in 1 .. Len(seq)}

\* The calls of render_single_tile made so far, as a set, and their number.
CallSet3 == SeqToSet(host3.calls)

\* Every tile of tiles is rendered once for every season of the sequence
\* seasons, season by season, in order.
RenderedOncePerSeason(seasons, tiles) ==
    /\ Len(host3.calls) = Len(seasons) * Len(tiles)
    /\ \A i \in 1 .. Len(seasons), j \in 1 .. Len(tiles) :
          host3.calls[(i - 1) * Len(tiles) + j] = <<seasons[i], tiles[j]>>

\* C8: without --season the seasons processed are winter, mud, summer in
\* that order; with "--season S" exactly the season S, lower-cased; the keys
\* of the written manifest's "seasons" are the seasons processed and every
\* tile is rendered once per processed season into tiles/<season>/<tile>.png.
C8_SeasonSelection ==
    pc3 = "done" =>
        /\ ~SeasonGiven3 => seasons3 = <<"winter", "mud", "summer">>
        /\ SeasonGiven3 => seasons3 = <<args3.season>>
        /\ DOMAIN tile_manifest.seasons = SeqToSet(seasons3)
        /\ RenderedOncePerSeason(seasons3, tiles3)
        /\ \A f \in host3.files : <<f[2], f[3]>> \in CallSet3

\* C8 witness: a finished run given --season with an empty name.
C8_Witness ==
    /\ pc3 = "done"
    /\ argv3 = <<"--season", "">>
    /\ host3.calls # <<>>
    /\ tile_manifest.dumps = 1

\* C9: with "--only T", T not in ALL_TILES: the run exits with status 1 (or
\* has raised while loading a colormap, which comes before the tile filter),
\* no tile is rendered and tiles/manifest.json is not written; T in
\* ALL_TILES: exactly that tile is rendered for each processed season.
C9_OnlyTile ==
    /\ (pc3 # "start" /\ OnlyGiven3 /\ ~InSeq(args3.only, ALL_TILES)) =>
          /\ pc3 \in {"exited", "raised"}
          /\ pc3 = "exited" => exit3 = 1
          /\ host3.calls = <<>>
          /\ tile_manifest.dumps = 0
    /\ (pc3 = "done" /\ OnlyGiven3 /\ InSeq(args3.only, ALL_TILES)) =>
          RenderedOncePerSeason(seasons3, <<args3.only>>)

\* C9 witness: a finished run given --only with an empty name, which is no
\* tile of ALL_TILES.
C9_Witness ==
    /\ pc3 = "done"
    /\ argv3 = <<"--only", "">>
    /\ ~InSeq("", ALL_TILES)
    /\ host3.calls # <<>>
    /\ tile_manifest.dumps = 1

-----------------------------------------------------------------------------
(***************************************************************************)
(* Claims about Stage 1                                                    *)
(***************************************************************************)

\* The slots of the mesh objects of the imported scene: <<object, slot>>.
MeshSlots ==
    {<<i, j>> \in (1 .. Len(imported_scene.objects)) \X (1 .. MaxSlots + 1) :
        /\ imported_scene.objects[i].type = "MESH"
        /\ j <= Len(imported_scene.meshes[imported_scene.objects[i].data])}

SlotBefore(i, j) == imported_scene.meshes[imported_scene.objects[i].data][j]
SlotAfter(i, j) == scene1.meshes[scene1.objects[i].data][j]

\* C10: after the replacement loop every non-empty material slot of every
\* mesh object holds the glass or the concrete material, the glass material
\* exactly when the slot's original material name, lower-cased, contained
\* "glass" or "window"; empty slots are left as they were; the decision uses
\* the original name, not the name of a material assigned earlier in the loop.
C10_MaterialSwap ==
    (sov_pc = "returned" /\ sov_out.ret) =>
        \A p \in MeshSlots :
            LET before == SlotBefore(p[1], p[2])
                after == SlotAfter(p[1], p[2])
                original == LowerName(before.name)
            IN  IF before = NoMaterial
                THEN after = NoMaterial
                ELSE /\ after \in {GlassMat, ConcreteMat(sov_name)}
                     /\ after = GlassMat <=>
                            (Contains(original, GlassWord) \/ Contains(original, WindowWord))

\* C10 witness: two mesh objects use one mesh data block, and the slot whose
\* material was "colormap" holds the glass material after the call.
C10_Witness ==
    /\ sov_pc = "returned"
    /\ sov_out.ret
    /\ \E p, q \in MeshSlots :
          /\ p[1] # q[1]
          /\ imported_scene.objects[p[1]].data = imported_scene.objects[q[1]].data
          /\ SlotBefore(p[1], p[2]).name = ColormapName
          /\ SlotAfter(p[1], p[2]) = GlassMat

-----------------------------------------------------------------------------
(***************************************************************************)
(* Claims about the Stage 1 run                                            *)
(***************************************************************************)

Calls1 == Range(host1.calls)

\* C11: when the source GLB does not exist, sovietize_model returns False
\* without importing or exporting, the asset gets no entry in "assets", and
\* its name is in results["failed"] if it comes from BUILDING_MANIFEST and in
\* results["skipped"] if it comes from SUBURBAN_MANIFEST; an asset has an
\* "assets" entry if and only if sovietize_model returned True for it.
C11_MissingSource ==
    /\ \A c \in Calls1 :
          ~c.source_exists =>
              /\ ~c.ret
              /\ <<c.kit, c.source>> \notin Range(host1.imports)
              /\ c.name \notin Range(host1.exports)
              /\ c.name \notin DOMAIN manifest_data1.at
              /\ c.name \notin DOMAIN asset_manifest.assets.at
              /\ c.name \notin Range(results1.success)
              /\ c.kit = "MODULAR_BUILDINGS" =>
                    c.name \in Range(results1.failed) /\ c.name \notin Range(results1.skipped)
              /\ c.kit = "CITY_KIT_SUBURBAN" =>
                    c.name \in Range(results1.skipped) /\ c.name \notin Range(results1.failed)
    /\ DOMAIN manifest_data1.at = {c.name : c \in {d \in Calls1 : d.ret}}
    /\ pc1 = "done" =>
          DOMAIN asset_manifest.assets.at = {c.name : c \in {d \in Calls1 : d.ret}}

\* C11 witness: a finished run with a missing source in each table beside a
\* source that was there.
C11_Witness ==
    /\ pc1 = "done"
    /\ results1.failed # <<>>
    /\ results1.skipped # <<>>
    /\ results1.success # <<>>
    /\ \E c \in Calls1 : ~c.source_exists /\ c.kit = "CITY_KIT_SUBURBAN"
    /\ asset_manifest.dumps = 1

\* The roles the two tables of the script use, all entries counted.
RolesUsed1 ==
    {BUILDING_MANIFEST[i][4] : i \in 1 .. Len(BUILDING_MANIFEST)}
        \cup {SUBURBAN_MANIFEST[i][4] : i \in 1 .. Len(SUBURBAN_MANIFEST)}

\* C14: in the manifest run_pipeline writes, every key of "assets" is in
\* exactly one list of "roles", once, and that list is the one of its role;
\* the lists together hold exactly the keys of "assets"; the thirteen role
\* lists cover every role the two tables use.
C14_RolesIndex ==
    /\ RolesUsed1 \subseteq Range(ROLE_NAMES)
    /\ Len(ROLE_NAMES) = 13 /\ Cardinality(Range(ROLE_NAMES)) = 13
    /\ pc1 = "done" =>
          LET assets == asset_manifest.assets.at
              roles == asset_manifest.roles
          IN  /\ DOMAIN roles = Range(ROLE_NAMES)
              /\ \A k \in DOMAIN assets :
                    /\ assets[k].role \in DOMAIN roles
                    /\ \A r \in DOMAIN roles :
                          Occurrences(roles[r], k) = IF r = assets[k].role THEN 1 ELSE 0
              /\ UNION {Range(roles[r]) : r \in DOMAIN roles} = DOMAIN assets

\* C14 witness: a written manifest with two assets of one role, an asset of
\* another role, and a source that was missing.
C14_Witness ==
    /\ pc1 = "done"
    /\ \E c \in Calls1 : ~c.ret
    /\ \E r \in DOMAIN asset_manifest.roles : Len(asset_manifest.roles[r]) = 2
    /\ Cardinality({r \in DOMAIN asset_manifest.roles : asset_manifest.roles[r] # <<>>}) = 2

-----------------------------------------------------------------------------
(***************************************************************************)
(* Claims about Stage 1 followed by Stage 2                                *)
(***************************************************************************)

\* C15: when Stage 2 has written its manifest from the manifest Stage 1
\* wrote, every key of "sprites" is a key of Stage 1's "assets" whose role is
\* not "modular"; its "role" is the Stage 1 role and its "sprite" is
\* sprites/soviet/<name>.png; the "roles" index lists each sprite exactly
\* once, under its own role, and holds no empty list.
C15_CrossStage ==
    (pc1 = "done" /\ pc2 = "done") =>
        LET assets == asset_manifest.assets.at
            sprites == sprite_manifest.sprites
            roles == sprite_manifest.roles
        IN  /\ \A n \in DOMAIN sprites :
                  /\ n \in DOMAIN assets
                  /\ assets[n].role # "modular"
                  /\ sprites[n].role = assets[n].role
                  /\ sprites[n].sprite = <<"sprites/soviet/", n, ".png">>
                  /\ sprites[n].role \in DOMAIN roles
                  /\ \A r \in DOMAIN roles :
                        Occurrences(roles[r], n) = IF r = sprites[n].role THEN 1 ELSE 0
            /\ \A r \in DOMAIN roles : roles[r] # <<>>

\* A chained run whose Stage 1 manifest holds a modular piece and whose
\* Stage 2 manifest holds two sprites of one role and one of another.
C15_Witness ==
    /\ pc1 = "done" /\ pc2 = "done"
    /\ \E n \in DOMAIN asset_manifest.assets.at :
          /\ asset_manifest.assets.at[n].role = "modular"
          /\ n \notin DOMAIN sprite_manifest.sprites
    /\ \E r \in DOMAIN sprite_manifest.roles : Len(sprite_manifest.roles[r]) = 2
    /\ Cardinality(DOMAIN sprite_manifest.roles) = 2
    /\ Cardinality(DOMAIN sprite_manifest.sprites) = 3

=============================================================================
